---- MODULE Spec2Model ----
(***************************************************************************)
(* Model of audio_utils/Statistics.h: the online weighted statistics       *)
(* engine (Statistics<T, D, KahanSum<D>>) run side by side with the naive  *)
(* ReferenceStatistics<T, D> on the same stream of add / setAlpha / reset  *)
(* calls.                                                                  *)
(*                                                                         *)
(* Floating point values are modelled in exact arithmetic as extended      *)
(* rationals <<kind, num, den>> with kind in "fin", "pinf", "ninf", "nan"; *)
(* finite values are kept in lowest terms with a positive denominator, so  *)
(* structural equality of two non-NaN values is numeric equality.  The     *)
(* sign of zero is not modelled.                                           *)
(***************************************************************************)
EXTENDS Integers, Sequences, FiniteSets, TLC

VARIABLES stat, ref, hist, lastOp, prevN, adts

vars == <<stat, ref, hist, lastOp, prevN, adts>>

\* Largest number of samples added between two resets.
MaxN == 3

\* Largest number of chunks a validated block is assembled from.
MaxChunks == 2

----------------------------------------------------------------------------
(* Extended rational arithmetic (IEEE semantics for NaN and infinities).   *)

Abs(x) == IF x < 0 THEN -x ELSE x

RECURSIVE GCD(_, _)
GCD(a, b) == IF b = 0 THEN a ELSE GCD(b, a % b)

\* n/d in lowest terms, d # 0
Rat(n, d) ==
    LET s == IF d < 0 THEN -1 ELSE 1
        g == GCD(Abs(n), Abs(d))
    IN  <<"fin", (s * n) \div g, (s * d) \div g>>

NaN == <<"nan", 0, 1>>
PosInf == <<"pinf", 0, 1>>
NegInf == <<"ninf", 0, 1>>
Zero == Rat(0, 1)
One == Rat(1, 1)

IsNaN(x) == x[1] = "nan"
IsFin(x) == x[1] = "fin"
IsInf(x) == x[1] \in {"pinf", "ninf"}

\* -1, 0 or 1
Sign(x) ==
    CASE x[1] = "pinf" -> 1
      [] x[1] = "ninf" -> -1
      [] x[1] = "fin" -> (IF x[2] > 0 THEN 1 ELSE IF x[2] < 0 THEN -1 ELSE 0)
      [] OTHER -> 0

InfOfSign(s) == IF s < 0 THEN NegInf ELSE PosInf

FNeg(x) ==
    CASE x[1] = "pinf" -> NegInf
      [] x[1] = "ninf" -> PosInf
      [] x[1] = "fin" -> Rat(-x[2], x[3])
      [] OTHER -> NaN

FAdd(x, y) ==
    IF IsNaN(x) \/ IsNaN(y) THEN NaN
    ELSE IF IsInf(x) /\ IsInf(y) THEN (IF x = y THEN x ELSE NaN)
    ELSE IF IsInf(x) THEN x
    ELSE IF IsInf(y) THEN y
    ELSE Rat(x[2] * y[3] + y[2] * x[3], x[3] * y[3])

FSub(x, y) == FAdd(x, FNeg(y))

FMul(x, y) ==
    IF IsNaN(x) \/ IsNaN(y) THEN NaN
    ELSE IF IsInf(x) \/ IsInf(y)
         THEN (IF Sign(x) * Sign(y) = 0 THEN NaN ELSE InfOfSign(Sign(x) * Sign(y)))
    ELSE Rat(x[2] * y[2], x[3] * y[3])

FDiv(x, y) ==
    IF IsNaN(x) \/ IsNaN(y) THEN NaN
    ELSE IF IsInf(x) /\ IsInf(y) THEN NaN
    ELSE IF IsInf(x) THEN InfOfSign(Sign(x) * (IF Sign(y) < 0 THEN -1 ELSE 1))
    ELSE IF IsInf(y) THEN Zero
    ELSE IF y[2] = 0 THEN (IF x[2] = 0 THEN NaN ELSE InfOfSign(Sign(x)))
    ELSE Rat(x[2] * y[3], x[3] * y[2])

\* operator <  (false when either side is NaN)
FLt(x, y) ==
    IF IsNaN(x) \/ IsNaN(y) THEN FALSE
    ELSE IF x = y THEN FALSE
    ELSE IF x[1] = "ninf" \/ y[1] = "pinf" THEN TRUE
    ELSE IF x[1] = "pinf" \/ y[1] = "ninf" THEN FALSE
    ELSE x[2] * y[3] < y[2] * x[3]

\* operator == (false when either side is NaN)
FEq(x, y) == ~IsNaN(x) /\ ~IsNaN(y) /\ x = y

\* std::max(a, b) is (a < b) ? b : a ; std::min(a, b) is (b < a) ? b : a
std_max(a, b) == IF FLt(a, b) THEN b ELSE a
std_min(a, b) == IF FLt(b, a) THEN b ELSE a

----------------------------------------------------------------------------
(* Input domains.                                                          *)

Alphas == {Rat(1, 2), One, Rat(2, 1)}
FiniteSamples == {Rat(-1, 1), Zero, Rat(2, 1)}
Samples == FiniteSamples \cup {NaN, PosInf, NegInf}

----------------------------------------------------------------------------
(* KahanSum<D>                                                             *)

KahanSum_init == [mSum |-> Zero, mCorrection |-> Zero]

KahanSum_add(k, rhs) ==
    LET y == FSub(rhs, k.mCorrection)
        t == FAdd(k.mSum, y)
    IN  [mSum |-> t, mCorrection |-> FSub(FSub(t, k.mSum), y)]

KahanSum_value(k) == k.mSum

----------------------------------------------------------------------------
(* StatisticsConstants<T>, T with infinities                               *)

mNegativeInfinity == NegInf
mPositiveInfinity == PosInf

----------------------------------------------------------------------------
(* Statistics<T, D, KahanSum<D>>                                           *)

Statistics(alpha) ==
    [mAlpha |-> alpha,
     mMin |-> mPositiveInfinity,
     mMax |-> mNegativeInfinity,
     mN |-> 0,
     mWeight |-> Zero,
     mWeight2 |-> Zero,
     mMean |-> KahanSum_init,
     mM2 |-> Zero]

\* setAlpha that also rescales the accumulated weight
setAlpha_Rescale(s, alpha) ==
    [s EXCEPT !.mAlpha = alpha, !.mWeight = FMul(alpha, s.mWeight)]

setAlpha(s, alpha) == [s EXCEPT !.mAlpha = alpha]

\* add with mM2 updated from the pre-update mean (delta * delta)
add_PreUpdateMean(s, value) ==
    LET max == std_max(s.mMax, value)
        min == std_min(s.mMin, value)
        delta == FSub(value, KahanSum_value(s.mMean))
        weight == FAdd(One, FMul(s.mAlpha, s.mWeight))
        weight2 == FAdd(One, FMul(FMul(s.mAlpha, s.mAlpha), s.mWeight2))
        mean == KahanSum_add(s.mMean, FDiv(delta, weight))
        m2 == FAdd(FMul(s.mAlpha, s.mM2), FMul(delta, delta))
    IN  [s EXCEPT !.mMax = max, !.mMin = min, !.mN = s.mN + 1,
                  !.mWeight = weight, !.mWeight2 = weight2,
                  !.mMean = mean, !.mM2 = m2]

\* add with mWeight2 decayed by alpha instead of alpha squared
add_Weight2Linear(s, value) ==
    LET max == std_max(s.mMax, value)
        min == std_min(s.mMin, value)
        delta == FSub(value, KahanSum_value(s.mMean))
        weight == FAdd(One, FMul(s.mAlpha, s.mWeight))
        weight2 == FAdd(One, FMul(s.mAlpha, s.mWeight2))
        mean == KahanSum_add(s.mMean, FDiv(delta, weight))
        m2 == FAdd(FMul(s.mAlpha, s.mM2),
                   FMul(delta, FSub(value, KahanSum_value(mean))))
    IN  [s EXCEPT !.mMax = max, !.mMin = min, !.mN = s.mN + 1,
                  !.mWeight = weight, !.mWeight2 = weight2,
                  !.mMean = mean, !.mM2 = m2]

\* add with the arguments of std::max and std::min in the other order
add_SwappedMinMax(s, value) ==
    LET max == std_max(value, s.mMax)
        min == std_min(value, s.mMin)
        delta == FSub(value, KahanSum_value(s.mMean))
        weight == FAdd(One, FMul(s.mAlpha, s.mWeight))
        weight2 == FAdd(One, FMul(FMul(s.mAlpha, s.mAlpha), s.mWeight2))
        mean == KahanSum_add(s.mMean, FDiv(delta, weight))
        m2 == FAdd(FMul(s.mAlpha, s.mM2),
                   FMul(delta, FSub(value, KahanSum_value(mean))))
    IN  [s EXCEPT !.mMax = max, !.mMin = min, !.mN = s.mN + 1,
                  !.mWeight = weight, !.mWeight2 = weight2,
                  !.mMean = mean, !.mM2 = m2]

\* add with mWeight = 1 - mAlpha * mWeight
add_WeightMinus(s, value) ==
    LET max == std_max(s.mMax, value)
        min == std_min(s.mMin, value)
        delta == FSub(value, KahanSum_value(s.mMean))
        weight == FSub(One, FMul(s.mAlpha, s.mWeight))
        weight2 == FAdd(One, FMul(FMul(s.mAlpha, s.mAlpha), s.mWeight2))
        mean == KahanSum_add(s.mMean, FDiv(delta, weight))
        m2 == FAdd(FMul(s.mAlpha, s.mM2),
                   FMul(delta, FSub(value, KahanSum_value(mean))))
    IN  [s EXCEPT !.mMax = max, !.mMin = min, !.mN = s.mN + 1,
                  !.mWeight = weight, !.mWeight2 = weight2,
                  !.mMean = mean, !.mM2 = m2]

\* add with mM2 updated by delta * value
add_DeltaTimesValue(s, value) ==
    LET max == std_max(s.mMax, value)
        min == std_min(s.mMin, value)
        delta == FSub(value, KahanSum_value(s.mMean))
        weight == FAdd(One, FMul(s.mAlpha, s.mWeight))
        weight2 == FAdd(One, FMul(FMul(s.mAlpha, s.mAlpha), s.mWeight2))
        mean == KahanSum_add(s.mMean, FDiv(delta, weight))
        m2 == FAdd(FMul(s.mAlpha, s.mM2), FMul(delta, value))
    IN  [s EXCEPT !.mMax = max, !.mMin = min, !.mN = s.mN + 1,
                  !.mWeight = weight, !.mWeight2 = weight2,
                  !.mMean = mean, !.mM2 = m2]

\* add with the mean advanced by delta / (mWeight + 1)
add_MeanOverWeightPlusOne(s, value) ==
    LET max == std_max(s.mMax, value)
        min == std_min(s.mMin, value)
        delta == FSub(value, KahanSum_value(s.mMean))
        weight == FAdd(One, FMul(s.mAlpha, s.mWeight))
        weight2 == FAdd(One, FMul(FMul(s.mAlpha, s.mAlpha), s.mWeight2))
        mean == KahanSum_add(s.mMean, FDiv(delta, FAdd(weight, One)))
        m2 == FAdd(FMul(s.mAlpha, s.mM2),
                   FMul(delta, FSub(value, KahanSum_value(mean))))
    IN  [s EXCEPT !.mMax = max, !.mMin = min, !.mN = s.mN + 1,
                  !.mWeight = weight, !.mWeight2 = weight2,
                  !.mMean = mean, !.mM2 = m2]

add(s, value) ==
    LET max == std_max(s.mMax, value)
        min == std_min(s.mMin, value)
        delta == FSub(value, KahanSum_value(s.mMean))
        weight == FAdd(One, FMul(s.mAlpha, s.mWeight))
        weight2 == FAdd(One, FMul(FMul(s.mAlpha, s.mAlpha), s.mWeight2))
        mean == KahanSum_add(s.mMean, FDiv(delta, weight))
        m2 == FAdd(FMul(s.mAlpha, s.mM2),
                   FMul(delta, FSub(value, KahanSum_value(mean))))
    IN  [s EXCEPT !.mMax = max, !.mMin = min, !.mN = s.mN + 1,
                  !.mWeight = weight, !.mWeight2 = weight2,
                  !.mMean = mean, !.mM2 = m2]

\* reset that leaves mWeight2 alone
reset_KeepWeight2(s) ==
    [s EXCEPT !.mMin = mPositiveInfinity, !.mMax = mNegativeInfinity,
              !.mN = 0, !.mWeight = Zero,
              !.mMean = KahanSum_init, !.mM2 = Zero]

reset(s) ==
    [s EXCEPT !.mMin = mPositiveInfinity, !.mMax = mNegativeInfinity,
              !.mN = 0, !.mWeight = Zero, !.mWeight2 = Zero,
              !.mMean = KahanSum_init, !.mM2 = Zero]

getN(s) == s.mN
getWeight(s) == s.mWeight
getMean(s) == KahanSum_value(s.mMean)
getMin(s) == s.mMin
getMax(s) == s.mMax

getSampleWeight(s) == FSub(s.mWeight, FDiv(s.mWeight2, s.mWeight))

\* getVariance guarded by mN < 1
getVariance_GuardOne(s) ==
    IF s.mN < 1 THEN Zero ELSE FDiv(s.mM2, getSampleWeight(s))

getVariance(s) ==
    IF s.mN < 2 THEN Zero ELSE FDiv(s.mM2, getSampleWeight(s))

getPopVariance(s) ==
    IF s.mN < 1 THEN Zero ELSE FDiv(s.mM2, s.mWeight)

\* sqrt of <cmath>: NaN for NaN and negative arguments, the argument itself
\* for +infinity and zero, the exact root of a rational square, and
\* otherwise the symbolic irrational <<"sqrt", n, d>> for the root of n/d
RECURSIVE ISqrtFrom(_, _)
ISqrtFrom(n, r) == IF r * r >= n THEN r ELSE ISqrtFrom(n, r + 1)

IsSquare(n) == ISqrtFrom(n, 0) * ISqrtFrom(n, 0) = n

sqrt(x) ==
    IF IsNaN(x) \/ Sign(x) < 0 THEN NaN
    ELSE IF IsInf(x) THEN x
    ELSE IF IsSquare(x[2]) /\ IsSquare(x[3])
         THEN Rat(ISqrtFrom(x[2], 0), ISqrtFrom(x[3], 0))
    ELSE <<"sqrt", x[2], x[3]>>

getStdDev(s) == sqrt(getVariance(s))
getPopStdDev(s) == sqrt(getPopVariance(s))

\* the text built by toString: either the literal "unavail" or the
\* label=value fields in the order they are written to the stream
Field(label, value) == [label |-> label, value |-> value]

\* toString that writes the std field whenever N > 0
toString_StdFromOne(s) ==
    LET N == getN(s)
    IN  IF N = 0 THEN [literal |-> "unavail", fields |-> <<>>]
        ELSE [literal |-> "",
              fields |-> <<Field("ave", getMean(s))>>
                         \o (IF N > 0 THEN <<Field("std", getStdDev(s))>> ELSE <<>>)
                         \o <<Field("min", getMin(s)), Field("max", getMax(s))>>]

toString(s) ==
    LET N == getN(s)
    IN  IF N = 0 THEN [literal |-> "unavail", fields |-> <<>>]
        ELSE [literal |-> "",
              fields |-> <<Field("ave", getMean(s))>>
                         \o (IF N > 1 THEN <<Field("std", getStdDev(s))>> ELSE <<>>)
                         \o <<Field("min", getMin(s)), Field("max", getMax(s))>>]

----------------------------------------------------------------------------
(* ReferenceStatistics<T, D>; mData[1] is the most recent sample.          *)

ReferenceStatistics(alpha) ==
    [mMin |-> Zero, mMax |-> Zero, mAlpha |-> alpha,
     mData |-> <<>>, mAlphaList |-> <<>>]

Ref_setAlpha(r, alpha) == [r EXCEPT !.mAlpha = alpha]

Ref_getN(r) == Len(r.mData)

\* add that never seeds mMin and mMax from the first sample
Ref_add_NoSeed(r, value) ==
    LET mm == IF FLt(r.mMax, value) THEN [max |-> value, min |-> r.mMin]
              ELSE IF FLt(value, r.mMin) THEN [max |-> r.mMax, min |-> value]
              ELSE [max |-> r.mMax, min |-> r.mMin]
    IN  [r EXCEPT !.mMax = mm.max, !.mMin = mm.min,
                  !.mData = <<value>> \o r.mData,
                  !.mAlphaList = <<r.mAlpha>> \o r.mAlphaList]

Ref_add(r, value) ==
    LET mm == IF Ref_getN(r) = 0 THEN [max |-> value, min |-> value]
              ELSE IF FLt(r.mMax, value) THEN [max |-> value, min |-> r.mMin]
              ELSE IF FLt(value, r.mMin) THEN [max |-> r.mMax, min |-> value]
              ELSE [max |-> r.mMax, min |-> r.mMin]
    IN  [r EXCEPT !.mMax = mm.max, !.mMin = mm.min,
                  !.mData = <<value>> \o r.mData,
                  !.mAlphaList = <<r.mAlpha>> \o r.mAlphaList]

Ref_reset(r) ==
    [r EXCEPT !.mMin = Zero, !.mMax = Zero, !.mData = <<>>, !.mAlphaList = <<>>]

\* the loops of getWeight / getWeight2 / getMean / getUnweightedVariance,
\* from index i with accumulator acc and running factor alpha_i
RECURSIVE WeightLoop(_, _, _, _)
WeightLoop(r, i, acc, alpha_i) ==
    IF i > Len(r.mData) THEN acc
    ELSE WeightLoop(r, i + 1, FAdd(acc, alpha_i), FMul(alpha_i, r.mAlphaList[i]))

RECURSIVE Weight2Loop(_, _, _, _)
Weight2Loop(r, i, acc, alpha2_i) ==
    IF i > Len(r.mData) THEN acc
    ELSE Weight2Loop(r, i + 1, FAdd(acc, alpha2_i),
                     FMul(alpha2_i, FMul(r.mAlphaList[i], r.mAlphaList[i])))

RECURSIVE MeanLoop(_, _, _, _)
MeanLoop(r, i, acc, alpha_i) ==
    IF i > Len(r.mData) THEN acc
    ELSE MeanLoop(r, i + 1, FAdd(acc, FMul(alpha_i, r.mData[i])),
                  FMul(alpha_i, r.mAlphaList[i]))

Ref_getWeight(r) == WeightLoop(r, 1, Zero, One)
Ref_getWeight2(r) == Weight2Loop(r, 1, Zero, One)
Ref_getMean(r) == FDiv(MeanLoop(r, 1, Zero, One), Ref_getWeight(r))

RECURSIVE VarLoop(_, _, _, _, _)
VarLoop(r, mean, i, acc, alpha_i) ==
    IF i > Len(r.mData) THEN acc
    ELSE LET diff == FSub(r.mData[i], mean)
         IN  VarLoop(r, mean, i + 1, FAdd(acc, FMul(FMul(alpha_i, diff), diff)),
                     FMul(alpha_i, r.mAlphaList[i]))

Ref_getUnweightedVariance(r) == VarLoop(r, Ref_getMean(r), 1, Zero, One)

Ref_getVariance(r) ==
    FDiv(Ref_getUnweightedVariance(r),
         FSub(Ref_getWeight(r), FDiv(Ref_getWeight2(r), Ref_getWeight(r))))

Ref_getPopVariance(r) == FDiv(Ref_getUnweightedVariance(r), Ref_getWeight(r))

Ref_getMin(r) == r.mMin
Ref_getMax(r) == r.mMax

----------------------------------------------------------------------------
(* AacBqToPcmCbRenderer.cpp: getAdtsFrameSize and                          *)
(* validateBufferStartEndOnFrameBoundaries.  Bytes are naturals below 256; *)
(* data[i + 1] is the byte at C offset i.                                  *)

ADTS_HEADER_SIZE_UP_TO_FRAMESIZE == 6

RECURSIVE BitAnd(_, _)
BitAnd(a, b) ==
    IF a = 0 \/ b = 0 THEN 0
    ELSE (a % 2) * (b % 2) + 2 * BitAnd(a \div 2, b \div 2)

RECURSIVE BitOr(_, _)
BitOr(a, b) ==
    IF a = 0 THEN b
    ELSE IF b = 0 THEN a
    ELSE (IF a % 2 = 1 \/ b % 2 = 1 THEN 1 ELSE 0) + 2 * BitOr(a \div 2, b \div 2)

ShiftLeft(a, n) == a * 2 ^ n
ShiftRight(a, n) == a \div 2 ^ n

getAdtsFrameSize(data, offset, size) ==
    IF ~(offset + ADTS_HEADER_SIZE_UP_TO_FRAMESIZE < size) THEN 0
    ELSE IF data[offset + 1] # 255 \/ BitAnd(data[offset + 2], 246) # 240 THEN 0
    ELSE LET protectionAbsent == BitAnd(data[offset + 2], 1)
             frameSize ==
                 BitOr(BitOr(ShiftLeft(BitAnd(data[offset + 4], 3), 11),
                             ShiftLeft(data[offset + 5], 3)),
                       ShiftRight(data[offset + 6], 5))
         IN  frameSize + (IF protectionAbsent # 0 THEN 0 ELSE 2)

\* A call of validateBufferStartEndOnFrameBoundaries(data, size): its
\* arguments (null says data == NULL), its locals, its position pc, its
\* return value ret once pc = "done", the return statement taken (via) and
\* whether the assert before "return true" held.
AdtsCall(data, null, size, pc) ==
    [data |-> data, null |-> null, size |-> size,
     offset |-> 0, frameSize |-> 0,
     pc |-> pc, ret |-> FALSE, via |-> "", assertOk |-> TRUE]

\* no call in progress
AdtsIdle == AdtsCall(<<>>, TRUE, 0, "idle")

Return(a, ret, via) == [a EXCEPT !.pc = "done", !.ret = ret, !.via = via]

\* if ((NULL == data) || (size == 0)) return false;
validateEntry(a) ==
    IF a.null \/ a.size = 0 THEN Return(a, FALSE, "no ADTS")
    ELSE [a EXCEPT !.pc = "loop"]

\* one iteration of the loop without the offset > size test
validateLoopBody_NoOverrunTest(a) ==
    LET fs == getAdtsFrameSize(a.data, a.offset, a.size)
    IN  IF fs = 0 THEN Return([a EXCEPT !.frameSize = fs], FALSE, "size 0")
        ELSE [a EXCEPT !.frameSize = fs, !.offset = a.offset + fs]

\* one iteration of while (offset < size) { ... }
validateLoopBody(a) ==
    LET fs == getAdtsFrameSize(a.data, a.offset, a.size)
        b == [a EXCEPT !.frameSize = fs, !.offset = a.offset + fs]
    IN  IF fs = 0 THEN Return([a EXCEPT !.frameSize = fs], FALSE, "size 0")
        ELSE IF b.offset > b.size THEN Return(b, FALSE, "incomplete")
        ELSE b

\* the code after the loop: assert(offset == size); return true;
validateLoopExit(a) ==
    Return([a EXCEPT !.assertOk = (a.offset = a.size)], TRUE, "end")

\* Blocks are assembled from these chunks: well-formed frames of 7, 8 and
\* 9 bytes (the last with a CRC, protection_absent = 0), a frame with an
\* MPEG-2 id bit, a header announcing 16 bytes, one announcing 3 bytes, one
\* announcing 0 bytes, one announcing 2048 bytes, and two bad syncwords.
Chunks ==
    { <<255, 241, 0, 0, 0, 224, 0>>,
      <<255, 241, 0, 0, 1, 0, 0, 0>>,
      <<255, 240, 0, 0, 0, 224, 0, 0, 0>>,
      <<255, 249, 0, 0, 0, 224, 0>>,
      <<255, 241, 0, 0, 2, 0, 0>>,
      <<255, 241, 0, 0, 0, 96, 0>>,
      <<255, 241, 0, 0, 0, 0, 0>>,
      <<255, 241, 0, 1, 0, 0, 0>>,
      <<0, 241, 0, 0, 0, 224, 0>>,
      <<255, 243, 0, 0, 0, 224, 0>> }

RECURSIVE Blocks(_)
Blocks(n) ==
    IF n = 0 THEN {<<>>}
    ELSE Blocks(n - 1) \cup {b \o c : b \in Blocks(n - 1), c \in Chunks}

StatsIdle ==
    /\ stat = Statistics(One)
    /\ ref = ReferenceStatistics(One)
    /\ hist = <<>>
    /\ lastOp = "init"
    /\ prevN = 0

InitAdts ==
    /\ StatsIdle
    /\ \/ \E data \in Blocks(MaxChunks) : \E size \in 0..Len(data) :
             adts = AdtsCall(data, FALSE, size, "entry")
       \/ \E size \in 0..1 : adts = AdtsCall(<<>>, TRUE, size, "entry")

ValidateEntry ==
    /\ adts.pc = "entry"
    /\ adts' = validateEntry(adts)
    /\ UNCHANGED <<stat, ref, hist, lastOp, prevN>>

ValidateLoop ==
    /\ adts.pc = "loop"
    /\ adts.offset < adts.size
    /\ adts' = validateLoopBody(adts)
    /\ UNCHANGED <<stat, ref, hist, lastOp, prevN>>

ValidateExit ==
    /\ adts.pc = "loop"
    /\ ~(adts.offset < adts.size)
    /\ adts' = validateLoopExit(adts)
    /\ UNCHANGED <<stat, ref, hist, lastOp, prevN>>

NextAdts == ValidateEntry \/ ValidateLoop \/ ValidateExit

SpecAdts == InitAdts /\ [][NextAdts]_vars

----------------------------------------------------------------------------
(* The two engines driven by the same calls.  hist records the samples     *)
(* added since construction or the last reset, oldest first, each with the *)
(* alpha in effect when it was added; lastOp is the last call made and     *)
(* prevN the sample count before it.                                       *)

Init ==
    /\ \E alpha \in Alphas :
          /\ stat = Statistics(alpha)
          /\ ref = ReferenceStatistics(alpha)
    /\ hist = <<>>
    /\ lastOp = "init"
    /\ prevN = 0
    /\ adts = AdtsIdle

Add ==
    /\ getN(stat) < MaxN
    /\ \E value \in Samples :
          /\ stat' = add(stat, value)
          /\ ref' = Ref_add(ref, value)
          /\ hist' = Append(hist, [value |-> value, alpha |-> stat.mAlpha])
    /\ lastOp' = "add"
    /\ prevN' = getN(stat)
    /\ UNCHANGED adts

SetAlpha ==
    /\ \E alpha \in Alphas :
          /\ stat' = setAlpha(stat, alpha)
          /\ ref' = Ref_setAlpha(ref, alpha)
    /\ lastOp' = "setAlpha"
    /\ prevN' = getN(stat)
    /\ UNCHANGED <<hist, adts>>

Reset ==
    /\ stat' = reset(stat)
    /\ ref' = Ref_reset(ref)
    /\ hist' = <<>>
    /\ lastOp' = "reset"
    /\ prevN' = getN(stat)
    /\ UNCHANGED adts

\* toString() const: the text is a function of the state, which it leaves
\* alone
ToStringCall ==
    /\ toString(stat).literal \in {"", "unavail"}
    /\ lastOp' = "toString"
    /\ prevN' = getN(stat)
    /\ UNCHANGED <<stat, ref, hist, adts>>

Next == Add \/ SetAlpha \/ Reset \/ ToStringCall

Spec == Init /\ [][Next]_vars

\* The same engines with alpha drawn from [0, infinity): alpha = 0 forgets
\* every earlier sample.
Alphas0 == Alphas \cup {Zero}

Init0 ==
    /\ \E alpha \in Alphas0 :
          /\ stat = Statistics(alpha)
          /\ ref = ReferenceStatistics(alpha)
    /\ hist = <<>>
    /\ lastOp = "init"
    /\ prevN = 0
    /\ adts = AdtsIdle

SetAlpha0 ==
    /\ \E alpha \in Alphas0 :
          /\ stat' = setAlpha(stat, alpha)
          /\ ref' = Ref_setAlpha(ref, alpha)
    /\ lastOp' = "setAlpha"
    /\ prevN' = getN(stat)
    /\ UNCHANGED <<hist, adts>>

Next0 == Add \/ SetAlpha0 \/ Reset

Spec0 == Init0 /\ [][Next0]_vars

----------------------------------------------------------------------------
(* Predicates on the samples added since construction or the last reset.   *)

Idx == 1..Len(hist)
AlphaHeldAt(a) == \A i \in Idx : hist[i].alpha = a
AlphaConstant == \A i, j \in Idx : hist[i].alpha = hist[j].alpha
AllFinite == \A i \in Idx : IsFin(hist[i].value)
AllSameValue == \A i, j \in Idx : hist[i].value = hist[j].value
NonNaNSamples == {hist[i].value : i \in {j \in Idx : ~IsNaN(hist[j].value)}}

MinOf(S) == IF S = {} THEN mPositiveInfinity
            ELSE CHOOSE m \in S : \A x \in S : ~FLt(x, m)
MaxOf(S) == IF S = {} THEN mNegativeInfinity
            ELSE CHOOSE m \in S : \A x \in S : ~FLt(m, x)

Accessors(s) ==
    <<getN(s), getWeight(s), getMean(s), getVariance(s), getPopVariance(s),
      getMin(s), getMax(s)>>

\* Welford's algorithm as written in the comment inside Statistics::add
Welford(s, value) ==
    LET delta == FSub(value, KahanSum_value(s.mMean))
        n == s.mN + 1
        mean == KahanSum_add(s.mMean, FDiv(delta, Rat(n, 1)))
        m2 == FAdd(s.mM2, FMul(delta, FSub(value, KahanSum_value(mean))))
    IN  [mN |-> n, mMean |-> mean, mM2 |-> m2]

----------------------------------------------------------------------------
(* C1 *)

\* C1 (as stated): once samples have been added with alpha = 1 to both
\* engines, getMean() and getVariance() of Statistics equal those of
\* ReferenceStatistics.
C1_Original ==
    (Len(hist) >= 1 /\ AlphaHeldAt(One)) =>
        /\ FEq(getMean(stat), Ref_getMean(ref))
        /\ FEq(getVariance(stat), Ref_getVariance(ref))

\* C1 (amended): for finite (non-NaN, non-infinite) samples added with
\* alpha = 1, getMean() of the two engines agree once one sample has been
\* added and getVariance() of the two engines agree once two have been added.
C1_MeanVarianceMatchReference ==
    (AlphaHeldAt(One) /\ AllFinite) =>
        /\ Len(hist) >= 1 => FEq(getMean(stat), Ref_getMean(ref))
        /\ Len(hist) >= 2 => FEq(getVariance(stat), Ref_getVariance(ref))

C1_Witness ==
    /\ Len(hist) >= 3 /\ AlphaHeldAt(One) /\ AllFinite
    /\ ~AllSameValue
    /\ FLt(Zero, getVariance(stat))
    /\ FEq(getVariance(stat), Ref_getVariance(ref))

----------------------------------------------------------------------------
(* C2 *)

\* C2: reset() leaves the engine in exactly the state of a freshly
\* constructed engine with the alpha the engine had before the reset
\* (N = 0, weight = 0, mean = 0, min/max at the sentinels, variances 0), so
\* every later sequence of operations gives the same accessor values.
C2_ResetIsFresh ==
    [][lastOp' = "reset" =>
          /\ stat' = Statistics(stat.mAlpha)
          /\ getN(stat') = 0
          /\ getWeight(stat') = Zero
          /\ getMean(stat') = Zero
          /\ getMin(stat') = mPositiveInfinity
          /\ getMax(stat') = mNegativeInfinity
          /\ getVariance(stat') = Zero
          /\ getPopVariance(stat') = Zero]_vars

C2_Witness ==
    lastOp = "reset" /\ prevN >= 2 /\ stat.mAlpha # One /\ getN(stat) = 0

----------------------------------------------------------------------------
(* C3 *)

\* C3 (as stated): when alpha was the same for all samples added since
\* construction or the last reset and at least one sample was added, the
\* divisor weight - weight2 / weight equals weight - 1.
C3_Original ==
    (Len(hist) >= 1 /\ AlphaConstant) =>
        getSampleWeight(stat) = FSub(getWeight(stat), One)

\* C3 (amended): when alpha was the same for all samples added since
\* construction or the last reset, the divisor weight - weight2 / weight
\* equals (weight - 1) * 2 / (1 + alpha); it equals weight - 1 exactly when
\* that alpha is 1 or only one sample has been added.
C3_SampleWeightConstantAlpha ==
    (Len(hist) >= 1 /\ AlphaConstant) =>
        LET a == hist[1].alpha
        IN  /\ getSampleWeight(stat) =
                 FDiv(FMul(FSub(getWeight(stat), One), Rat(2, 1)), FAdd(One, a))
            /\ (getSampleWeight(stat) = FSub(getWeight(stat), One))
                  <=> (a = One \/ Len(hist) = 1)

C3_Witness ==
    /\ Len(hist) >= 3 /\ AlphaConstant /\ hist[1].alpha = Rat(1, 2)
    /\ getSampleWeight(stat) # FSub(getWeight(stat), One)

----------------------------------------------------------------------------
(* C4 *)

\* C4: getMin() and getMax() are the minimum and maximum of the non-NaN
\* samples added since the last reset (the sentinels when there are none);
\* NaN samples are counted by getN() but never become the min or max.
C4_MinMaxIgnoreNaN ==
    /\ getMin(stat) = MinOf(NonNaNSamples)
    /\ getMax(stat) = MaxOf(NonNaNSamples)
    /\ getN(stat) = Len(hist)
    /\ ~IsNaN(getMin(stat)) /\ ~IsNaN(getMax(stat))

C4_Witness ==
    /\ Len(hist) >= 3
    /\ IsNaN(hist[1].value)
    /\ \E i \in Idx : IsFin(hist[i].value)
    /\ IsNaN(hist[Len(hist)].value)
    /\ IsFin(getMin(stat)) /\ IsFin(getMax(stat))

----------------------------------------------------------------------------
(* C5 *)

\* C5: getVariance() returns zero while fewer than 2 samples have been
\* added since the last reset and getPopVariance() returns zero while fewer
\* than 1 has been added.
C5_UndefinedVarianceIsZero ==
    /\ getN(stat) < 2 => getVariance(stat) = Zero
    /\ getN(stat) < 1 => getPopVariance(stat) = Zero

C5_Witness ==
    /\ getN(stat) = 1 /\ IsNaN(stat.mM2)
    /\ getVariance(stat) = Zero
    /\ IsNaN(getPopVariance(stat))

----------------------------------------------------------------------------
(* C6 *)

\* C6: in every reachable state, getN() > 0 implies getWeight() > 0.
C6_WeightPositive == getN(stat) > 0 => FLt(Zero, getWeight(stat))

C6_Witness ==
    /\ getN(stat) >= 3 /\ ~AlphaConstant
    /\ FLt(Zero, getWeight(stat))

----------------------------------------------------------------------------
(* C7 *)

\* C7: setAlpha changes mAlpha only: getN, getWeight, getMean, getVariance,
\* getPopVariance, getMin and getMax return the same values right after
\* setAlpha as right before it.
C7_SetAlphaFrame ==
    [][lastOp' = "setAlpha" =>
          /\ Accessors(stat') = Accessors(stat)
          /\ stat' = [stat EXCEPT !.mAlpha = stat'.mAlpha]]_vars

C7_Witness ==
    /\ lastOp = "setAlpha" /\ getN(stat) >= 2
    /\ stat.mAlpha # hist[Len(hist)].alpha
    /\ FLt(Zero, getVariance(stat))

----------------------------------------------------------------------------
(* C8 *)

\* C8: while alpha is held at 1, every add is a step of unweighted
\* Welford's algorithm (mean += delta / N, m2 += delta * (value - mean))
\* and leaves getWeight() equal to getN().
C8_AlphaOneIsWelford ==
    [][(lastOp' = "add" /\ AlphaHeldAt(One)') =>
          LET w == Welford(stat, hist'[Len(hist')].value)
          IN  /\ getN(stat') = w.mN
              /\ stat'.mMean = w.mMean
              /\ stat'.mM2 = w.mM2
              /\ getWeight(stat') = Rat(getN(stat'), 1)
              /\ getN(stat') = Len(hist')]_vars

C8_Witness ==
    /\ lastOp = "add" /\ AlphaHeldAt(One) /\ getN(stat) >= 3
    /\ getWeight(stat) = Rat(getN(stat), 1)
    /\ IsFin(stat.mM2) /\ stat.mM2 # Zero

----------------------------------------------------------------------------
(* C9 *)

\* C9 (as stated): when all samples added since the last reset have the
\* same value, getVariance() and getPopVariance() are zero, whatever alpha
\* was at each add.
C9_Original ==
    (Len(hist) >= 1 /\ AllSameValue) =>
        /\ FEq(getVariance(stat), Zero)
        /\ FEq(getPopVariance(stat), Zero)

\* C9 (amended): when all samples added since the last reset have the same
\* finite (non-NaN, non-infinite) value, getVariance() and getPopVariance()
\* are zero, whatever alpha was at each add.
C9_IdenticalFiniteZeroVariance ==
    (Len(hist) >= 1 /\ AllSameValue /\ AllFinite) =>
        /\ FEq(getVariance(stat), Zero)
        /\ FEq(getPopVariance(stat), Zero)

C9_Witness ==
    /\ Len(hist) >= 3 /\ AllSameValue /\ ~AlphaConstant
    /\ hist[1].value = Rat(2, 1)
    /\ getVariance(stat) = Zero /\ getPopVariance(stat) = Zero

----------------------------------------------------------------------------
(* C10 *)

\* C10 (as stated): after exactly one add(v) on a fresh or reset engine,
\* getN() = 1, getMean() = v, getVariance() is zero and getPopVariance()
\* is zero.
C10_Original ==
    (lastOp = "add" /\ Len(hist) = 1) =>
        /\ getN(stat) = 1
        /\ FEq(getMean(stat), hist[1].value)
        /\ getVariance(stat) = Zero
        /\ FEq(getPopVariance(stat), Zero)

\* C10 (amended): after exactly one add(v) of a finite (non-NaN,
\* non-infinite) v on a fresh or reset engine, for any alpha, getN() = 1,
\* getMean() = v, getVariance() is zero and getPopVariance() is zero.
C10_SingleFiniteSample ==
    (lastOp = "add" /\ Len(hist) = 1 /\ AllFinite) =>
        /\ getN(stat) = 1
        /\ FEq(getMean(stat), hist[1].value)
        /\ getVariance(stat) = Zero
        /\ FEq(getPopVariance(stat), Zero)

C10_Witness ==
    /\ lastOp = "add" /\ Len(hist) = 1 /\ prevN = 0
    /\ hist[1].value = Rat(2, 1) /\ hist[1].alpha = Rat(1, 2)
    /\ getMean(stat) = Rat(2, 1)

----------------------------------------------------------------------------
(* C11 *)

Labels(t) == [i \in 1..Len(t.fields) |-> t.fields[i].label]

\* C11: toString() chooses its form from getN() alone: the literal
\* "unavail" when getN() = 0; the fields ave, min, max in that order and no
\* std field when getN() = 1; the fields ave, std, min, max in that order
\* when getN() > 1; a toString call leaves the engine's state unchanged.
C11_ToStringForm ==
    [][lastOp' = "toString" =>
          LET t == toString(stat)
          IN  /\ stat' = stat
              /\ getN(stat) = 0 => (t.literal = "unavail" /\ t.fields = <<>>)
              /\ getN(stat) = 1 =>
                    (t.literal = "" /\ Labels(t) = <<"ave", "min", "max">>)
              /\ getN(stat) > 1 =>
                    (t.literal = "" /\ Labels(t) = <<"ave", "std", "min", "max">>)]_vars

C11_Witness ==
    /\ lastOp = "toString" /\ getN(stat) = 1 /\ prevN = 1
    /\ Labels(toString(stat)) = <<"ave", "min", "max">>
    /\ IsNaN(stat.mM2)

----------------------------------------------------------------------------
(* C12 *)

\* operator >= (false when either side is NaN)
FGe(x, y) == ~IsNaN(x) /\ ~IsNaN(y) /\ ~FLt(x, y)

AllNonNaN == \A i \in Idx : ~IsNaN(hist[i].value)

\* the term delta * (value - mMean) that add(value) adds to mAlpha * mM2,
\* with mMean the mean after the update
M2Term(s, value) ==
    LET delta == FSub(value, KahanSum_value(s.mMean))
        weight == FAdd(One, FMul(s.mAlpha, s.mWeight))
        mean == KahanSum_add(s.mMean, FDiv(delta, weight))
    IN  FMul(delta, FSub(value, KahanSum_value(mean)))

\* C12 (as stated): for alpha >= 0 and non-NaN samples, every add
\* contributes a term delta * (value - mean) >= 0 to m2, and m2 >= 0 and
\* getPopVariance() >= 0 hold after every step.
C12_Original ==
    [][AllNonNaN' =>
          /\ lastOp' = "add" =>
                /\ FGe(M2Term(stat, hist'[Len(hist')].value), Zero)
                /\ stat'.mM2 = FAdd(FMul(stat.mAlpha, stat.mM2),
                                    M2Term(stat, hist'[Len(hist')].value))
          /\ FGe(stat'.mM2, Zero)
          /\ FGe(getPopVariance(stat'), Zero)]_vars

\* C12 (amended): for alpha >= 0 and finite (non-NaN, non-infinite)
\* samples, every add contributes a term delta * (value - mean) >= 0 to
\* m2, and m2 >= 0 and getPopVariance() >= 0 hold after every step.
C12_M2NonNegative ==
    [][AllFinite' =>
          /\ lastOp' = "add" =>
                /\ FGe(M2Term(stat, hist'[Len(hist')].value), Zero)
                /\ stat'.mM2 = FAdd(FMul(stat.mAlpha, stat.mM2),
                                    M2Term(stat, hist'[Len(hist')].value))
          /\ FGe(stat'.mM2, Zero)
          /\ FGe(getPopVariance(stat'), Zero)]_vars

C12_Witness ==
    /\ lastOp = "add" /\ Len(hist) >= 3 /\ AllFinite /\ ~AlphaConstant
    /\ \E i \in Idx : hist[i].alpha = Zero
    /\ FLt(Zero, stat.mM2)
    /\ FLt(Zero, getPopVariance(stat))

----------------------------------------------------------------------------
(* C13 *)

\* C13: after any non-empty sequence of non-NaN samples the reference
\* engine's getMin() and getMax() equal those of Statistics; when the first
\* sample since construction or reset is NaN, the reference engine's min
\* and max are NaN after every later add, while Statistics reports the
\* extrema of the non-NaN samples.
C13_ReferenceMinMax ==
    /\ (Len(hist) >= 1 /\ AllNonNaN) =>
          /\ FEq(Ref_getMin(ref), getMin(stat))
          /\ FEq(Ref_getMax(ref), getMax(stat))
          /\ Ref_getMin(ref) = MinOf(NonNaNSamples)
          /\ Ref_getMax(ref) = MaxOf(NonNaNSamples)
    /\ (Len(hist) >= 1 /\ IsNaN(hist[1].value)) =>
          /\ IsNaN(Ref_getMin(ref)) /\ IsNaN(Ref_getMax(ref))
          /\ getMin(stat) = MinOf(NonNaNSamples)
          /\ getMax(stat) = MaxOf(NonNaNSamples)
          /\ ~IsNaN(getMin(stat)) /\ ~IsNaN(getMax(stat))

C13_Witness ==
    /\ Len(hist) >= 3 /\ IsNaN(hist[1].value)
    /\ IsFin(hist[2].value) /\ IsFin(hist[3].value)
    /\ hist[2].value # hist[3].value
    /\ IsNaN(Ref_getMin(ref)) /\ IsNaN(Ref_getMax(ref))
    /\ IsFin(getMin(stat)) /\ IsFin(getMax(stat))
    /\ FLt(getMin(stat), getMax(stat))

----------------------------------------------------------------------------
(* C14 *)

\* the block data[0 .. size) is cut exactly into frames from offset o on:
\* every frame start parses to a non-zero size and the last frame ends at
\* size
RECURSIVE FramesFrom(_, _, _)
FramesFrom(data, size, o) ==
    IF o = size THEN TRUE
    ELSE IF o > size THEN FALSE
    ELSE /\ getAdtsFrameSize(data, o, size) # 0
         /\ FramesFrom(data, size, o + getAdtsFrameSize(data, o, size))

\* C14: validateBufferStartEndOnFrameBoundaries returns true if and only
\* if data is non-null, size > 0 and the block is exactly a back-to-back
\* sequence of ADTS frames from offset 0 to size; it returns false for a
\* null or empty block, an unparsable frame or a frame reaching past size;
\* when the loop exits without returning, offset = size and the assert holds;
\* inside the loop offset never exceeds size.
C14_ValidateFrameBoundaries ==
    /\ adts.pc = "loop" => adts.offset <= adts.size
    /\ adts.pc = "done" =>
          /\ adts.ret <=> (/\ ~adts.null
                           /\ adts.size > 0
                           /\ FramesFrom(adts.data, adts.size, 0))
          /\ (adts.null \/ adts.size = 0) => ~adts.ret
          /\ adts.via \in {"no ADTS", "size 0", "incomplete"} => ~adts.ret
          /\ adts.via = "end" => (adts.ret /\ adts.offset = adts.size)
          /\ adts.assertOk

C14_Witness ==
    /\ adts.pc = "done" /\ adts.ret /\ adts.via = "end"
    /\ adts.offset = adts.size
    /\ getAdtsFrameSize(adts.data, 0, adts.size) = 9
    /\ adts.frameSize = 7

====
